---- MODULE Spec2Model ----
(***************************************************************************)
(* stencil-async (src/src/stencil-async.ts): the registration and          *)
(* lifecycle engine behind async(obj).  Components, promises and           *)
(* observables are identities.  The compReg and observableReg objects live *)
(* in per-component heaps, because the closures made by init,              *)
(* getPromiseValue and getObservableValue keep referring to them after the *)
(* registration has been deleted from componentRegistrations.              *)
(***************************************************************************)
EXTENDS Integers, Sequences, FiniteSets, TLC

VARIABLES
    page,                   \* the components on the page, and what the code of each reads
    hooks,                  \* component.connectedCallback / disconnectedCallback / render
    initialHooks,           \* the hooks each component was constructed with
    componentRegistrations, \* the Map: component -> heap index of its compReg (0: no entry)
    compRegs,               \* heap of ComponentRegistration objects, per component
    obsRegs,                \* heap of ObservableRegistration objects, per component
    subscriptions,          \* the Subscription returned by obs$.subscribe, per observableReg
    promiseState,           \* each promise: pending or settled with a value
    thens,                  \* continuations attached with promise.then and not yet run,
                            \* in the order they were attached
    fired,                  \* continuations that have run, of the registered compRegs
    streamBuffer,           \* each observable: the values it replays on subscribe
    promiseUpdates,         \* forceUpdate calls made by the continuations of (component, promise)
                            \* since the promise was first read, counted up to MaxUpdates
    renderingRef,           \* what getRenderingRef() returns
    pass,                   \* the render call in progress, and what its body has read
    dropped,                \* history, kept where dropped.on: <<component, observable, v>>
                            \* where the component's subscription was closed after it had
                            \* received v last, and the component has received no value of
                            \* the observable since
    log                     \* the calls made by the step that ran last, in order

vars == <<page, hooks, initialHooks, componentRegistrations, compRegs, obsRegs,
          subscriptions, promiseState, thens, fired, streamBuffer, promiseUpdates,
          renderingRef, pass, dropped, log>>

----------------------------------------------------------------------------
(* Bounds and universes *)

\* compReg objects of one component that are referred to at the same time
MaxRegs == 2
\* observableReg objects of one component that are referred to at the same time
MaxObsRegs == 2
\* the count of forceUpdate calls kept per (component, promise) stops here
MaxUpdates == 2

Components == {"c1", "c2"}
Promises == {"p1"}
Streams == {"s1", "s2"}
Junk == {"junk"}
Objects == Promises \cup Streams \cup Junk
NoObject == "none"
NoComponent == "none"

\* how many of its latest values an observable re-emits synchronously to a
\* new subscriber (s1: a plain subject, s2: a replaying subject)
ReplayDepth == [s \in Streams |-> IF s = "s2" THEN 2 ELSE 0]

StreamOrder == <<"s1", "s2">>
ComponentOrder == <<"c1", "c2">>

----------------------------------------------------------------------------
(* JavaScript values *)

Prim(x) == [kind |-> "prim", of |-> x]
Undefined == Prim("undefined")
Null == Prim("null")
Absent == [kind |-> "absent", of |-> ""]
ResolveValues == {Prim("x"), Undefined}
EmitValues == {Prim("a"), Undefined}
\* what an original render returns
RenderResults == {Prim("vdom"), Undefined}

\* the rest parameter of the continuation: (...res) => res is the array [v]
RestArgs(v) == [kind |-> "array", of |-> v.of]

AbsentHook == [kind |-> "absent", reg |-> 0]
OrigHook == [kind |-> "orig", reg |-> 0]
Wrapper(r) == [kind |-> "wrapper", reg |-> r]
HookNames == {"connectedCallback", "disconnectedCallback", "render"}

FreeCompReg == [free |-> TRUE,
                promises |-> [p \in Promises |-> Absent],
                observables |-> [s \in Streams |-> 0],
                recentlyUsedObservables |-> {},
                origMethods |-> [h \in HookNames |-> AbsentHook]]
FreeObsReg == [free |-> TRUE, obs |-> NoObject, result |-> Undefined]
FreeSubscription == [obs |-> NoObject, closed |-> TRUE, got |-> FALSE, last |-> Undefined]

Ev(e, c, s, v, n) == [ev |-> e, comp |-> c, src |-> s, val |-> v, n |-> n]

State == [hooks |-> hooks, componentRegistrations |-> componentRegistrations,
          compRegs |-> compRegs, obsRegs |-> obsRegs, subscriptions |-> subscriptions,
          thens |-> thens, fired |-> fired, promiseUpdates |-> promiseUpdates, log |-> <<>>, ok |-> TRUE]

Logged(st, e) == [st EXCEPT !.log = Append(@, e)]

\* the index a new object gets in a heap: its lowest free slot (0: the heap is full)
NewSlot(heap) ==
    IF \E i \in DOMAIN heap : heap[i].free
    THEN CHOOSE i \in DOMAIN heap : heap[i].free /\ \A j \in 1..(i - 1) : ~heap[j].free
    ELSE 0

----------------------------------------------------------------------------
(* external primitives *)

forceUpdate(st, c, s) == Logged(st, Ev("forceUpdate", c, s, Undefined, 0))

\* Subscription.unsubscribe()
unsubscribe(st, c, k) ==
    Logged([st EXCEPT !.subscriptions[c][k].closed = TRUE],
           Ev("unsubscribe", c, st.subscriptions[c][k].obs, Undefined, k))

----------------------------------------------------------------------------
(* init, destroy, unregisterObservable *)

\* as init, without the test of componentRegistrations.has(component)
initNoHas(st, c) ==
    LET r == NewSlot(st.compRegs[c])
        compReg == [free |-> FALSE,
                    promises |-> [p \in Promises |-> Absent],
                    observables |-> [s \in Streams |-> 0],
                    recentlyUsedObservables |-> {},
                    origMethods |-> st.hooks[c]]
    IN IF r = 0
       THEN [st EXCEPT !.ok = FALSE]
       ELSE [st EXCEPT !.compRegs[c][r] = compReg,
                       !.componentRegistrations[c] = r,
                       !.hooks[c] = [h \in HookNames |-> Wrapper(r)]]

init(st, c) ==
    IF st.componentRegistrations[c] # 0
    THEN st
    ELSE LET r == NewSlot(st.compRegs[c])
             compReg == [free |-> FALSE,
                         promises |-> [p \in Promises |-> Absent],
                         observables |-> [s \in Streams |-> 0],
                         recentlyUsedObservables |-> {},
                         origMethods |-> st.hooks[c]]
         IN IF r = 0
            THEN [st EXCEPT !.ok = FALSE]
            ELSE [st EXCEPT !.compRegs[c][r] = compReg,
                            !.componentRegistrations[c] = r,
                            !.hooks[c] = [h \in HookNames |-> Wrapper(r)]]

RECURSIVE UnsubscribeAll(_, _, _, _)
UnsubscribeAll(st, c, r, i) ==
    IF i > Len(StreamOrder)
    THEN st
    ELSE LET k == st.compRegs[c][r].observables[StreamOrder[i]]
         IN UnsubscribeAll(IF k # 0 THEN unsubscribe(st, c, k) ELSE st, c, r, i + 1)

\* as destroy, without unsubscribing the observables
destroyNoUnsubscribe(st, c) ==
    IF st.componentRegistrations[c] = 0
    THEN st
    ELSE LET r == st.componentRegistrations[c]
             st2 == Logged([st EXCEPT !.componentRegistrations[c] = 0],
                           Ev("delete", c, NoObject, Undefined, r))
         IN [st2 EXCEPT !.hooks[c] = st.compRegs[c][r].origMethods]

\* as destroy, without resetting component.render
destroyKeepRender(st, c) ==
    IF st.componentRegistrations[c] = 0
    THEN st
    ELSE LET r == st.componentRegistrations[c]
             st1 == UnsubscribeAll(st, c, r, 1)
             st2 == Logged([st1 EXCEPT !.componentRegistrations[c] = 0],
                           Ev("delete", c, NoObject, Undefined, r))
         IN [st2 EXCEPT !.hooks[c] = [st.compRegs[c][r].origMethods
                                        EXCEPT !.render = st.hooks[c].render]]

\* as destroy, with componentRegistrations.clear() for delete(component)
destroyClear(st, c) ==
    IF st.componentRegistrations[c] = 0
    THEN st
    ELSE LET r == st.componentRegistrations[c]
             st1 == UnsubscribeAll(st, c, r, 1)
             st2 == Logged([st1 EXCEPT !.componentRegistrations = [x \in Components |-> 0]],
                           Ev("delete", c, NoObject, Undefined, r))
         IN [st2 EXCEPT !.hooks[c] = st.compRegs[c][r].origMethods]

destroy(st, c) ==
    IF st.componentRegistrations[c] = 0
    THEN st
    ELSE LET r == st.componentRegistrations[c]
             st1 == UnsubscribeAll(st, c, r, 1)
             st2 == Logged([st1 EXCEPT !.componentRegistrations[c] = 0],
                           Ev("delete", c, NoObject, Undefined, r))
         IN [st2 EXCEPT !.hooks[c] = st.compRegs[c][r].origMethods]

\* as unregisterObservable, without the call of subscription.unsubscribe()
unregisterObservableNoUnsub(st, c, s) ==
    IF st.componentRegistrations[c] = 0
    THEN st
    ELSE [st EXCEPT !.compRegs[c][st.componentRegistrations[c]].observables[s] = 0]

\* as unregisterObservable, without compReg.observables.delete(observable)
unregisterObservableKeepEntry(st, c, s) ==
    IF st.componentRegistrations[c] = 0
    THEN st
    ELSE LET r == st.componentRegistrations[c]
             k == st.compRegs[c][r].observables[s]
         IN IF k # 0 THEN unsubscribe(st, c, k) ELSE st

unregisterObservable(st, c, s) ==
    IF st.componentRegistrations[c] = 0
    THEN st
    ELSE LET r == st.componentRegistrations[c]
             k == st.compRegs[c][r].observables[s]
             st1 == IF k # 0 THEN unsubscribe(st, c, k) ELSE st
         IN [st1 EXCEPT !.compRegs[c][r].observables[s] = 0]

----------------------------------------------------------------------------
(* the wrappers installed by init; compReg r is the one their closure holds *)

connectedCallbackWrapper(st, c, r) ==
    LET st1 == init(Logged(st, Ev("connectedCallback", c, NoObject, Undefined, r)), c)
    IN IF st.compRegs[c][r].origMethods.connectedCallback.kind # "absent"
       THEN Logged(st1, Ev("origConnected", c, NoObject, Undefined, 0))
       ELSE st1

disconnectedCallbackWrapper(st, c, r) ==
    LET st1 == destroy(Logged(st, Ev("disconnectedCallback", c, NoObject, Undefined, r)), c)
    IN IF st.compRegs[c][r].origMethods.disconnectedCallback.kind # "absent"
       THEN Logged(st1, Ev("origDisconnected", c, NoObject, Undefined, 0))
       ELSE st1

PromisesSize(compReg) == Cardinality({p \in Promises : compReg.promises[p] # Absent})

\* lines 57-62: up to the call of the original render
renderWrapperCall(st, c, r) ==
    LET st0 == Logged(st, Ev("render", c, NoObject, Undefined, r))
    IN IF st.compRegs[c][r].origMethods.render.kind = "absent"
       THEN Logged(st0, Ev("renderReturn", c, NoObject, Undefined, r))
       ELSE Logged([st0 EXCEPT !.compRegs[c][r].recentlyUsedObservables = {}],
                   Ev("origRender", c, NoObject, Undefined, 0))

RECURSIVE UnregisterUnused(_, _, _, _)
UnregisterUnused(st, c, r, i) ==
    IF i > Len(StreamOrder)
    THEN st
    ELSE LET s == StreamOrder[i]
             compReg == st.compRegs[c][r]
             unused == compReg.observables[s] # 0
                       /\ s \notin compReg.recentlyUsedObservables
         IN UnregisterUnused(IF unused THEN unregisterObservable(st, c, s) ELSE st,
                             c, r, i + 1)

\* as renderWrapperReturn, with || for && in the test of lines 68-71
renderWrapperReturnOr(st, c, r, renderResult) ==
    LET st1 == UnregisterUnused(st, c, r, 1)
        compReg == st1.compRegs[c][r]
        st2 == IF Cardinality(compReg.recentlyUsedObservables) = 0 \/ PromisesSize(compReg) = 0
               THEN destroy(st1, c)
               ELSE st1
    IN Logged(st2, Ev("renderReturn", c, NoObject, renderResult, r))

\* as renderWrapperReturn, without the test of compReg.promises.size
renderWrapperReturnNoPromises(st, c, r, renderResult) ==
    LET st1 == UnregisterUnused(st, c, r, 1)
        compReg == st1.compRegs[c][r]
        st2 == IF Cardinality(compReg.recentlyUsedObservables) = 0
               THEN destroy(st1, c)
               ELSE st1
    IN Logged(st2, Ev("renderReturn", c, NoObject, renderResult, r))

\* as renderWrapperReturn, without lines 68-74
renderWrapperReturnNoDestroy(st, c, r, renderResult) ==
    Logged(UnregisterUnused(st, c, r, 1), Ev("renderReturn", c, NoObject, renderResult, r))

\* as renderWrapperReturn, without the return of renderResult
renderWrapperReturnNoResult(st, c, r, renderResult) ==
    LET st1 == UnregisterUnused(st, c, r, 1)
        compReg == st1.compRegs[c][r]
        st2 == IF Cardinality(compReg.recentlyUsedObservables) = 0 /\ PromisesSize(compReg) = 0
               THEN destroy(st1, c)
               ELSE st1
    IN Logged(st2, Ev("renderReturn", c, NoObject, Undefined, r))

\* lines 63-76: after the original render has returned with renderResult
renderWrapperReturn(st, c, r, renderResult) ==
    LET st1 == UnregisterUnused(st, c, r, 1)
        compReg == st1.compRegs[c][r]
        st2 == IF Cardinality(compReg.recentlyUsedObservables) = 0 /\ PromisesSize(compReg) = 0
               THEN destroy(st1, c)
               ELSE st1
    IN Logged(st2, Ev("renderReturn", c, NoObject, renderResult, r))

----------------------------------------------------------------------------
(* the callbacks *)

\* lines 133-136: the continuation given to promise.then; it holds compReg r
continuation(st, c, r, p, v) ==
    LET st1 == [st EXCEPT !.compRegs[c][r].promises[p] = RestArgs(v),
                          !.fired = @ \cup {[promise |-> p, comp |-> c, reg |-> r]},
                          !.promiseUpdates[c][p] = IF @ < MaxUpdates THEN @ + 1 ELSE @]
    IN forceUpdate(Logged(st1, Ev("continuation", c, p, v, r)), c, p)

\* as observer, without the assignment to observableReg.result
observerNoStore(st, c, k, v) ==
    forceUpdate(st, c, st.obsRegs[c][k].obs)

\* lines 159-162: the observer given to obs$.subscribe; it holds observableReg k
observer(st, c, k, v) ==
    forceUpdate([st EXCEPT !.obsRegs[c][k].result = v], c, st.obsRegs[c][k].obs)

\* the observable hands v to the observer of subscription k of component c
Deliver(st, c, k, v) ==
    observer(Logged([st EXCEPT !.subscriptions[c][k].got = TRUE,
                               !.subscriptions[c][k].last = v],
                    Ev("next", c, st.subscriptions[c][k].obs, v, k)), c, k, v)

RECURSIVE Replay(_, _, _, _, _)
Replay(st, c, k, buf, i) ==
    IF i > Len(buf) THEN st ELSE Replay(Deliver(st, c, k, buf[i]), c, k, buf, i + 1)

\* obs$.subscribe(observer): a new open subscription; a replaying observable
\* calls the observer with its buffered values before subscribe returns
subscribe(st, c, k, s) ==
    Replay(Logged([st EXCEPT !.subscriptions[c][k] =
                        [obs |-> s, closed |-> FALSE, got |-> FALSE, last |-> Undefined]],
                  Ev("subscribe", c, s, Undefined, k)),
           c, k, streamBuffer[s], 1)

----------------------------------------------------------------------------
(* async(obj) *)

isPromise(obj) == obj \in Promises
isSubscribable(obj) == obj \in Streams

getComponentRegistration(st, c) ==
    IF st.componentRegistrations[c] = 0 THEN init(st, c) ELSE st

\* as getPromiseValue, without the test of compReg.promises.has(promise)
getPromiseValueNoHas(st, c, p) ==
    LET st1 == getComponentRegistration(st, c)
        r == st1.componentRegistrations[c]
        st2 == Logged([st1 EXCEPT !.compRegs[c][r].promises[p] = Null,
                                  !.thens = Append(@, [promise |-> p, comp |-> c, reg |-> r])],
                      Ev("then", c, p, Undefined, r))
    IN IF r = 0
       THEN [st |-> st1, ret |-> Undefined]
       ELSE [st |-> st2, ret |-> st2.compRegs[c][r].promises[p]]

getPromiseValue(st, c, p) ==
    LET st1 == getComponentRegistration(st, c)
        r == st1.componentRegistrations[c]
        st2 == IF st1.compRegs[c][r].promises[p] = Absent
               THEN Logged([st1 EXCEPT !.compRegs[c][r].promises[p] = Null,
                                       !.thens = Append(@, [promise |-> p, comp |-> c, reg |-> r])],
                           Ev("then", c, p, Undefined, r))
               ELSE st1
    IN IF r = 0
       THEN [st |-> st1, ret |-> Undefined]
       ELSE [st |-> st2, ret |-> st2.compRegs[c][r].promises[p]]

\* as getObservableValue, without the test of compReg.observables.has(obs$)
getObservableValueNoHas(st, c, s) ==
    LET st1 == getComponentRegistration(st, c)
        r == st1.componentRegistrations[c]
        st2 == [st1 EXCEPT !.compRegs[c][r].recentlyUsedObservables = @ \cup {s}]
        k == NewSlot(st2.obsRegs[c])
        st3 == [st2 EXCEPT !.obsRegs[c][k] = [free |-> FALSE, obs |-> s, result |-> Undefined]]
        st4 == subscribe(st3, c, k, s)
        st5 == [st4 EXCEPT !.compRegs[c][r].observables[s] = k]
    IN IF r = 0
       THEN [st |-> st1, ret |-> Undefined]
       ELSE IF k = 0
       THEN [st |-> [st2 EXCEPT !.ok = FALSE], ret |-> Undefined]
       ELSE [st |-> st5, ret |-> st5.obsRegs[c][k].result]

\* as getObservableValue, with the observableReg object created after
\* obs$.subscribe has returned
getObservableValueLateRecord(st, c, s) ==
    LET st1 == getComponentRegistration(st, c)
        r == st1.componentRegistrations[c]
        st2 == [st1 EXCEPT !.compRegs[c][r].recentlyUsedObservables = @ \cup {s}]
        k == NewSlot(st2.obsRegs[c])
        st3 == subscribe([st2 EXCEPT !.obsRegs[c][k] =
                              [free |-> FALSE, obs |-> s, result |-> Undefined]], c, k, s)
        st4 == [st3 EXCEPT !.obsRegs[c][k] = [free |-> FALSE, obs |-> s, result |-> Undefined]]
        st5 == [st4 EXCEPT !.compRegs[c][r].observables[s] = k]
    IN IF r = 0
       THEN [st |-> st1, ret |-> Undefined]
       ELSE IF st2.compRegs[c][r].observables[s] # 0
       THEN [st |-> st2, ret |-> st2.obsRegs[c][st2.compRegs[c][r].observables[s]].result]
       ELSE IF k = 0
       THEN [st |-> [st2 EXCEPT !.ok = FALSE], ret |-> Undefined]
       ELSE [st |-> st5, ret |-> st5.obsRegs[c][k].result]

getObservableValue(st, c, s) ==
    LET st1 == getComponentRegistration(st, c)
        r == st1.componentRegistrations[c]
        st2 == [st1 EXCEPT !.compRegs[c][r].recentlyUsedObservables = @ \cup {s}]
        k == NewSlot(st2.obsRegs[c])
        st3 == [st2 EXCEPT !.obsRegs[c][k] = [free |-> FALSE, obs |-> s, result |-> Undefined]]
        st4 == subscribe(st3, c, k, s)
        st5 == [st4 EXCEPT !.compRegs[c][r].observables[s] = k]
    IN IF r = 0
       THEN [st |-> st1, ret |-> Undefined]
       ELSE IF st2.compRegs[c][r].observables[s] # 0
       THEN [st |-> st2, ret |-> st2.obsRegs[c][st2.compRegs[c][r].observables[s]].result]
       ELSE IF k = 0
       THEN [st |-> [st2 EXCEPT !.ok = FALSE], ret |-> Undefined]
       ELSE [st |-> st5, ret |-> st5.obsRegs[c][k].result]

\* as getAsyncValue, with the registration looked up before obj is inspected
getAsyncValueInitFirst(st, c, obj) ==
    IF isPromise(obj) THEN getPromiseValue(st, c, obj)
    ELSE IF isSubscribable(obj) THEN getObservableValue(st, c, obj)
    ELSE [st |-> Logged(getComponentRegistration(st, c),
                        Ev("console.error", c, obj, Undefined, 0)),
          ret |-> Undefined]

getAsyncValue(st, c, obj) ==
    IF isPromise(obj) THEN getPromiseValue(st, c, obj)
    ELSE IF isSubscribable(obj) THEN getObservableValue(st, c, obj)
    ELSE [st |-> Logged(st, Ev("console.error", c, obj, Undefined, 0)), ret |-> Undefined]

async(st, obj) ==
    LET got == getAsyncValue(st, renderingRef, obj)
    IN Logged(got.st, Ev("return", renderingRef, obj, got.ret,
                         IF \E d \in dropped.values : d[1] = renderingRef /\ d[2] = obj
                         THEN 1 ELSE 0))

----------------------------------------------------------------------------
(* reclaiming what nothing refers to *)

\* A compReg is referred to by componentRegistrations, by the wrappers (they are
\* installed exactly while it is registered) and by the continuations of the
\* promises it read, which use its promises only.  An observableReg is referred
\* to by compReg.observables, which only the registered compReg's code reads,
\* and by the observer of its subscription, which runs only while that is open.
Pending(st, c, r) == \E i \in DOMAIN st.thens : st.thens[i].comp = c /\ st.thens[i].reg = r

LiveObsReg(st, c, k) == ~st.subscriptions[c][k].closed

CollectedCompReg(st, c, r) ==
    IF st.componentRegistrations[c] = r THEN st.compRegs[c][r]
    ELSE IF Pending(st, c, r) /\ ~st.compRegs[c][r].free
    THEN [FreeCompReg EXCEPT !.free = FALSE, !.promises = st.compRegs[c][r].promises]
    ELSE FreeCompReg

Collected(st) ==
    [st EXCEPT
       !.fired = {t \in @ : st.componentRegistrations[t.comp] = t.reg},
       !.compRegs = [c \in Components |-> [r \in DOMAIN st.compRegs[c] |->
                      CollectedCompReg(st, c, r)]],
       !.obsRegs = [c \in Components |-> [k \in DOMAIN st.obsRegs[c] |->
                      IF LiveObsReg(st, c, k) THEN st.obsRegs[c][k] ELSE FreeObsReg]],
       !.subscriptions = [c \in Components |-> [k \in DOMAIN st.subscriptions[c] |->
                      IF LiveObsReg(st, c, k) THEN st.subscriptions[c][k]
                      ELSE FreeSubscription]]]

----------------------------------------------------------------------------
(* the state machine *)

NoPass == [active |-> FALSE, comp |-> NoComponent, reg |-> 0, seen |-> {}]

\* a continuation whose promise has settled is a queued microtask: it runs when
\* the running code returns, before the host runs anything else
Runnable(t) == promiseState[t.promise].settled
Idle == ~pass.active /\ \A i \in DOMAIN thens : ~Runnable(thens[i])

Start ==
    /\ initialHooks = hooks
    /\ componentRegistrations = [c \in Components |-> 0]
    /\ compRegs = [c \in Components |-> [r \in 1..MaxRegs |-> FreeCompReg]]
    /\ obsRegs = [c \in Components |-> [k \in 1..MaxObsRegs |-> FreeObsReg]]
    /\ subscriptions = [c \in Components |-> [k \in 1..MaxObsRegs |-> FreeSubscription]]
    /\ promiseState = [p \in Promises |-> [settled |-> FALSE, value |-> Undefined]]
    /\ thens = <<>>
    /\ fired = {}
    /\ streamBuffer = [s \in Streams |-> <<>>]
    /\ promiseUpdates = [c \in Components |-> [p \in Promises |-> 0]]
    /\ renderingRef = NoComponent
    /\ pass = NoPass
    /\ log = <<>>

NoHistory == [on |-> FALSE, values |-> {}]
History == [on |-> TRUE, values |-> {}]

Shared == {"p1", "s1"}
AllHooks == [h \in HookNames |-> OrigHook]
RenderOnly == [h \in HookNames |-> IF h = "render" THEN OrigHook ELSE AbsentHook]

\* one component with all three hooks, whose code reads any object
Init ==
    /\ page = [c \in Components |-> IF c = "c1" THEN Objects ELSE {}]
    /\ hooks = [c \in Components |-> AllHooks]
    /\ dropped = NoHistory
    /\ Start

\* one component with all three hooks, whose code reads the two observables,
\* or a promise and an observable; with history
InitHistory ==
    /\ page \in {[c \in Components |-> IF c = "c1" THEN Streams ELSE {}],
                 [c \in Components |-> IF c = "c1" THEN Shared ELSE {}]}
    /\ hooks = [c \in Components |-> AllHooks]
    /\ dropped = History
    /\ Start

\* one component with any of the three hooks present or absent
InitHooks ==
    /\ page = [c \in Components |-> IF c = "c1" THEN Shared ELSE {}]
    /\ hooks \in [Components -> [HookNames -> {AbsentHook, OrigHook}]]
    /\ hooks["c2"] = AllHooks
    /\ dropped = NoHistory
    /\ Start

\* two components that read the same promise, or the same observable
InitTwo ==
    /\ page \in {[c \in Components |-> {"p1"}],
                 [c \in Components |-> IF c = "c1" THEN Shared ELSE {"s1"}]}
    /\ hooks = [c \in Components |-> IF c = "c1" THEN AllHooks ELSE RenderOnly]
    /\ dropped = NoHistory
    /\ Start

OnPage(c) == page[c] # {}

\* the subscriptions that had received a value and are closed in st
Lost(st) ==
    {d \in Components \X Streams \X EmitValues :
        \E k \in DOMAIN subscriptions[d[1]] :
            /\ subscriptions[d[1]][k].obs = d[2]
            /\ ~subscriptions[d[1]][k].closed
            /\ subscriptions[d[1]][k].got
            /\ subscriptions[d[1]][k].last = d[3]
            /\ st.subscriptions[d[1]][k].closed}

\* the components and observables whose observer was called in st
Received(st) ==
    {d \in Components \X Streams \X EmitValues :
        \E i \in DOMAIN st.log :
            st.log[i].ev = "next" /\ st.log[i].comp = d[1] /\ st.log[i].src = d[2]}

Commit(st0) ==
    \E st \in {Collected(st0)} :
       /\ st.ok
       /\ dropped' = IF dropped.on
                     THEN [dropped EXCEPT !.values = (@ \cup Lost(st)) \ Received(st)]
                     ELSE dropped
       /\ hooks' = st.hooks
       /\ componentRegistrations' = st.componentRegistrations
       /\ compRegs' = st.compRegs
       /\ obsRegs' = st.obsRegs
       /\ subscriptions' = st.subscriptions
       /\ thens' = st.thens
       /\ fired' = st.fired
       /\ promiseUpdates' = st.promiseUpdates
       /\ log' = st.log

\* the host calls the connectedCallback of component c, if it has one
HostConnect(c) ==
    /\ Idle
    /\ OnPage(c)
    /\ LET hook == hooks[c].connectedCallback
       IN Commit(CASE hook.kind = "wrapper" -> connectedCallbackWrapper(State, c, hook.reg)
                   [] hook.kind = "orig" ->
                          Logged(State, Ev("origConnected", c, NoObject, Undefined, 0))
                   [] OTHER -> State)
    /\ UNCHANGED <<page, initialHooks, promiseState, streamBuffer, renderingRef, pass>>

\* the host calls the disconnectedCallback of component c, if it has one
HostDisconnect(c) ==
    /\ Idle
    /\ OnPage(c)
    /\ LET hook == hooks[c].disconnectedCallback
       IN Commit(CASE hook.kind = "wrapper" -> disconnectedCallbackWrapper(State, c, hook.reg)
                   [] hook.kind = "orig" ->
                          Logged(State, Ev("origDisconnected", c, NoObject, Undefined, 0))
                   [] OTHER -> State)
    /\ UNCHANGED <<page, initialHooks, promiseState, streamBuffer, renderingRef, pass>>

\* the host makes c the rendering ref and calls its render, if it has one; the
\* call stays in progress (pass) while the original render body runs
HostRender(c) ==
    /\ Idle
    /\ OnPage(c)
    /\ renderingRef' = c
    /\ LET hook == hooks[c].render
           st == CASE hook.kind = "wrapper" -> renderWrapperCall(State, c, hook.reg)
                   [] hook.kind = "orig" ->
                          Logged(State, Ev("origRender", c, NoObject, Undefined, 0))
                   [] OTHER -> State
           body == hook.kind = "orig"
                   \/ (hook.kind = "wrapper"
                       /\ compRegs[c][hook.reg].origMethods.render.kind # "absent")
       IN /\ Commit(st)
          /\ pass' = IF body
                     THEN [active |-> TRUE, comp |-> c, reg |-> hook.reg, seen |-> {}]
                     ELSE NoPass
    /\ UNCHANGED <<page, initialHooks, promiseState, streamBuffer>>

\* a call of async(obj): by the render body in progress, or by other code of the
\* page between render calls (getRenderingRef() is then the last rendered one)
Read(obj) ==
    /\ renderingRef # NoComponent
    /\ pass.active \/ Idle
    /\ obj \in page[renderingRef]
    /\ Commit(async(State, obj))
    /\ pass' = IF pass.active THEN [pass EXCEPT !.seen = @ \cup {obj}] ELSE pass
    /\ UNCHANGED <<page, initialHooks, promiseState, streamBuffer, renderingRef>>

RECURSIVE BodyReturned(_, _, _, _)
BodyReturned(st, c, seen, res) ==
    IF seen = {}
    THEN Logged(st, Ev("origRenderReturned", c, NoObject, res, 0))
    ELSE LET obj == CHOOSE o \in seen : TRUE
         IN BodyReturned(Logged(st, Ev("read", c, obj, Undefined, 0)), c, seen \ {obj}, res)

\* the original render body returns, having read pass.seen; a wrapped call goes
\* on with lines 63-76
RenderReturn ==
    /\ pass.active
    /\ \E res \in RenderResults :
          Commit(IF pass.reg # 0
                 THEN renderWrapperReturn(BodyReturned(State, pass.comp, pass.seen, res),
                                          pass.comp, pass.reg, res)
                 ELSE BodyReturned(State, pass.comp, pass.seen, res))
    /\ pass' = NoPass
    /\ UNCHANGED <<page, initialHooks, promiseState, streamBuffer, renderingRef>>

\* promise p settles with value v
Resolve(p, v) ==
    /\ Idle
    /\ ~promiseState[p].settled
    /\ promiseState' = [promiseState EXCEPT ![p] = [settled |-> TRUE, value |-> v]]
    /\ Commit(State)
    /\ UNCHANGED <<page, initialHooks, streamBuffer, renderingRef, pass>>

Without(seq, i) == [j \in 1..(Len(seq) - 1) |-> IF j < i THEN seq[j] ELSE seq[j + 1]]

\* the first queued microtask runs: the continuation attached first among those
\* whose promise has settled
RunContinuation ==
    /\ ~pass.active
    /\ \E i \in DOMAIN thens :
          /\ Runnable(thens[i])
          /\ \A j \in 1..(i - 1) : ~Runnable(thens[j])
          /\ Commit(continuation([State EXCEPT !.thens = Without(@, i)], thens[i].comp,
                                 thens[i].reg, thens[i].promise,
                                 promiseState[thens[i].promise].value))
    /\ UNCHANGED <<page, initialHooks, promiseState, streamBuffer, renderingRef, pass>>

RECURSIVE DeliverAll(_, _, _, _, _)
DeliverAll(st, s, v, ci, k) ==
    IF ci > Len(ComponentOrder) THEN st
    ELSE LET c == ComponentOrder[ci]
         IN IF k > Len(st.subscriptions[c]) THEN DeliverAll(st, s, v, ci + 1, 1)
            ELSE LET sub == st.subscriptions[c][k]
                 IN DeliverAll(IF sub.obs = s /\ ~sub.closed THEN Deliver(st, c, k, v) ELSE st,
                               s, v, ci, k + 1)

LastN(seq, n) == IF Len(seq) <= n THEN seq ELSE SubSeq(seq, Len(seq) - n + 1, Len(seq))

\* observable s emits v to the observers of its open subscriptions
Emit(s, v) ==
    /\ Idle
    /\ streamBuffer' = [streamBuffer EXCEPT ![s] = LastN(Append(@, v), ReplayDepth[s])]
    /\ Commit(DeliverAll(State, s, v, 1, 1))
    /\ UNCHANGED <<page, initialHooks, promiseState, renderingRef, pass>>

Next ==
    \/ \E c \in Components : HostConnect(c)
    \/ \E c \in Components : HostDisconnect(c)
    \/ \E c \in Components : HostRender(c)
    \/ \E obj \in Objects : Read(obj)
    \/ RenderReturn
    \/ \E p \in Promises, v \in ResolveValues : Resolve(p, v)
    \/ RunContinuation
    \/ \E s \in Streams, v \in EmitValues : Emit(s, v)

Spec == Init /\ [][Next]_vars
SpecHooks == InitHooks /\ [][Next]_vars
SpecTwo == InitTwo /\ [][Next]_vars
SpecHistory == InitHistory /\ [][Next]_vars

----------------------------------------------------------------------------
(* reading the state and the log *)

Registered(c) == componentRegistrations[c] # 0
Binding(c) == compRegs[c][componentRegistrations[c]]
BoundPromise(c, p) == Registered(c) /\ Binding(c).promises[p] # Absent
BoundStream(c, s) == Registered(c) /\ Binding(c).observables[s] # 0
OpenSubs(c, s) ==
    {k \in DOMAIN subscriptions[c] : subscriptions[c][k].obs = s /\ ~subscriptions[c][k].closed}
Continuation(c, p) == [promise |-> p, comp |-> c, reg |-> componentRegistrations[c]]
Attached(c, p) == {i \in DOMAIN thens : thens[i].comp = c /\ thens[i].promise = p}
LogHas(e, c) == \E i \in DOMAIN log : log[i].ev = e /\ log[i].comp = c
LogHasOn(e, c, s) == \E i \in DOMAIN log : log[i].ev = e /\ log[i].comp = c /\ log[i].src = s
Unresolved(v) == v \in {Undefined, Null}

----------------------------------------------------------------------------
(* C1: a read of a promise that has not settled returns the unresolved      *)
(* marker, and a read made after the promise settled with v and the         *)
(* continuation of the component's binding has run returns v itself.        *)
C1_ReadReturnsSettledValue ==
    \A i \in DOMAIN log :
        (log[i].ev = "return" /\ log[i].src \in Promises) =>
            LET c == log[i].comp
                p == log[i].src
            IN /\ ~promiseState[p].settled => Unresolved(log[i].val)
               /\ (promiseState[p].settled /\ Continuation(c, p) \in fired)
                      => log[i].val = promiseState[p].value

(* C1 as found: the continuation stores its rest parameter, the array [v] *)
C1_ReadReturnsArray ==
    \E i \in DOMAIN log :
        /\ log[i].ev = "return" /\ log[i].src \in Promises
        /\ Continuation(log[i].comp, log[i].src) \in fired
        /\ log[i].val = RestArgs(promiseState[log[i].src].value)

----------------------------------------------------------------------------
(* C2, as claimed: over any sequence of render passes, disconnects and      *)
(* re-reads, a promise has at most one continuation of a component attached *)
(* and its settlement requests at most one re-render of the component.      *)
C2_OncePerComponent ==
    \A c \in Components, p \in Promises :
        /\ Cardinality(Attached(c, p)) <= 1
        /\ promiseUpdates[c][p] <= 1

(* C2, amended: per registration (compReg) of a component, a promise that   *)
(* was read has exactly one continuation, attached and not yet run or run   *)
(* once; no continuation is attached twice; a continuation that runs calls  *)
(* forceUpdate exactly once.                                                *)
C2_OncePerRegistration ==
    /\ \A c \in Components, p \in Promises :
           BoundPromise(c, p) =>
               Cardinality({i \in DOMAIN thens : thens[i] = Continuation(c, p)})
                   + (IF Continuation(c, p) \in fired THEN 1 ELSE 0) = 1
    /\ \A i, j \in DOMAIN thens : thens[i] = thens[j] => i = j
    /\ \A i \in DOMAIN log :
           log[i].ev = "continuation" =>
               Cardinality({j \in DOMAIN log : log[j].ev = "forceUpdate"}) = 1

C2_Witness ==
    /\ promiseUpdates["c1"]["p1"] = 2
    /\ Continuation("c1", "p1") \in fired
    /\ LogHasOn("return", "c1", "p1")

----------------------------------------------------------------------------
(* C3: a read of an observable returns undefined until the observable has   *)
(* handed a value to the component's subscription and the value handed over *)
(* last from then on; each value handed over calls forceUpdate for the      *)
(* component exactly once, and forceUpdate is called for an observable only *)
(* then.                                                                    *)
C3_StreamReadAndRerender ==
    /\ \A i \in DOMAIN log :
           (log[i].ev = "return" /\ log[i].src \in Streams) =>
               /\ OpenSubs(log[i].comp, log[i].src) # {}
               /\ \A k \in OpenSubs(log[i].comp, log[i].src) :
                      LET sub == subscriptions[log[i].comp][k]
                      IN log[i].val = IF sub.got THEN sub.last ELSE Undefined
    /\ \A i \in DOMAIN log :
           log[i].ev = "next" =>
               /\ i < Len(log)
               /\ log[i + 1] = Ev("forceUpdate", log[i].comp, log[i].src, Undefined, 0)
               /\ i + 2 <= Len(log) => log[i + 2].ev # "forceUpdate"
    /\ \A i \in DOMAIN log :
           (log[i].ev = "forceUpdate" /\ log[i].src \in Streams) =>
               /\ i > 1
               /\ log[i - 1].ev = "next"
               /\ log[i - 1].comp = log[i].comp
               /\ log[i - 1].src = log[i].src

C3_Witness ==
    /\ LogHasOn("return", "c1", "s1")
    /\ \E i \in DOMAIN log : log[i].ev = "return" /\ log[i].val = Prim("a")
    /\ streamBuffer["s2"] = <<Prim("a"), Undefined>>

----------------------------------------------------------------------------
\* the step that ran last was the return of a wrapped render call of c whose
\* original render ran
WrappedPassReturned(c) == LogHas("origRenderReturned", c) /\ LogHas("renderReturn", c)
ReadInPass(c, obj) == LogHasOn("read", c, obj)

(* C4: when a wrapped render call returns, an observable its render body    *)
(* did not read has no open subscription of the component and no entry in   *)
(* compReg.observables; and forceUpdate is called for an observable only    *)
(* for a component that has an entry for it.                                *)
C4_UnreadStreamReaped ==
    /\ \A c \in Components : \A s \in Streams :
           (WrappedPassReturned(c) /\ ~ReadInPass(c, s)) =>
               OpenSubs(c, s) = {} /\ ~BoundStream(c, s)
    /\ \A i \in DOMAIN log :
           (log[i].ev = "forceUpdate" /\ log[i].src \in Streams) =>
               BoundStream(log[i].comp, log[i].src)

C4_Witness ==
    /\ WrappedPassReturned("c1")
    /\ LogHasOn("unsubscribe", "c1", "s1")
    /\ ReadInPass("c1", "s2")
    /\ BoundStream("c1", "s2")

----------------------------------------------------------------------------
(* C5: the wrapped disconnectedCallback unsubscribes every observable of    *)
(* the component before it deletes the registration; a component without    *)
(* registration has no open subscription, and an observable hands values    *)
(* only to observers of registered components.                              *)
C5_DisconnectCancels ==
    /\ \A c \in Components :
           LogHas("disconnectedCallback", c) =>
               /\ ~Registered(c)
               /\ \A i, j \in DOMAIN log :
                      (log[i].ev = "unsubscribe" /\ log[j].ev = "delete") => i < j
    /\ \A c \in Components : \A s \in Streams : ~Registered(c) => OpenSubs(c, s) = {}
    /\ \A i \in DOMAIN log : log[i].ev = "next" => Registered(log[i].comp)

C5_Witness ==
    /\ LogHas("disconnectedCallback", "c1")
    /\ LogHasOn("unsubscribe", "c1", "s1")
    /\ LogHasOn("unsubscribe", "c1", "s2")
    /\ LogHas("delete", "c1")
    /\ LogHas("origDisconnected", "c1")

----------------------------------------------------------------------------
(* C6, as claimed: a continuation or an observer that runs for a compReg    *)
(* that is no longer the component's registration calls no forceUpdate.     *)
C6_LateCallbackNoOp ==
    /\ \A i \in DOMAIN log :
           (log[i].ev = "continuation" /\ componentRegistrations[log[i].comp] # log[i].n) =>
               ~LogHas("forceUpdate", log[i].comp)
    /\ \A i \in DOMAIN log :
           (log[i].ev = "next" /\ ~BoundStream(log[i].comp, log[i].src)) =>
               ~LogHas("forceUpdate", log[i].comp)

----------------------------------------------------------------------------
(* C7: the return of a wrapped render call deletes the registration exactly *)
(* when the compReg has no promise and the render body read no observable   *)
(* (what it did not read is unregistered), and then the hooks are the       *)
(* initial ones; a registration that stays has a promise or an observable   *)
(* and keeps its wrappers.                                                  *)
C7_DestroyIffNoBindings ==
    [][(pass.active /\ ~pass'.active /\ pass.reg # 0) =>
          LET c == pass.comp
              r == pass.reg
          IN /\ componentRegistrations'[c] \in {0, r}
             /\ (componentRegistrations'[c] = 0)
                    <=> (PromisesSize(compRegs[c][r]) = 0 /\ pass.seen \cap Streams = {})
             /\ componentRegistrations'[c] = 0 => hooks'[c] = initialHooks[c]
             /\ componentRegistrations'[c] = r =>
                    /\ hooks'[c] = hooks[c]
                    /\ \/ PromisesSize(compRegs'[c][r]) > 0
                       \/ \E s \in Streams : compRegs'[c][r].observables[s] # 0]_vars

C7_Witness ==
    /\ WrappedPassReturned("c1")
    /\ LogHasOn("unsubscribe", "c1", "s1")
    /\ LogHas("delete", "c1")
    /\ hooks["c1"] = initialHooks["c1"]

----------------------------------------------------------------------------
NoRead(c) == \A obj \in Objects : ~ReadInPass(c, obj)

(* C8, as claimed: when a wrapped render call whose body read nothing       *)
(* returns and every promise of the compReg has settled, the hooks are the  *)
(* initial ones.                                                            *)
C8_RestoredWhenNothingPending ==
    \A c \in Components :
        (/\ WrappedPassReturned(c)
         /\ NoRead(c)
         /\ \A p \in Promises : BoundPromise(c, p) => promiseState[p].settled)
            => hooks[c] = initialHooks[c]

(* C8, amended: when a wrapped render call whose body read nothing returns  *)
(* and the compReg holds no promise, settled or not, the registration is    *)
(* deleted and the hooks are the initial ones.                              *)
C8_RestoredWhenNoPromise ==
    \A c \in Components :
        (WrappedPassReturned(c) /\ NoRead(c) /\ \A p \in Promises : ~BoundPromise(c, p))
            => ~Registered(c) /\ hooks[c] = initialHooks[c]

C8_Witness ==
    /\ WrappedPassReturned("c1")
    /\ NoRead("c1")
    /\ LogHasOn("unsubscribe", "c1", "s2")
    /\ ~Registered("c1")
    /\ hooks["c1"] = initialHooks["c1"]

----------------------------------------------------------------------------
(* C9: whatever hooks a component starts with, while it has no registration *)
(* its three hooks are the initial ones, and a registration holds the       *)
(* initial hooks in origMethods.                                            *)
C9_HooksRestored ==
    \A c \in Components :
        /\ ~Registered(c) => hooks[c] = initialHooks[c]
        /\ Registered(c) => Binding(c).origMethods = initialHooks[c]

C9_Witness ==
    /\ initialHooks["c1"].disconnectedCallback = AbsentHook
    /\ initialHooks["c1"].connectedCallback = OrigHook
    /\ promiseUpdates["c1"]["p1"] = 2
    /\ LogHas("disconnectedCallback", "c1")
    /\ LogHas("delete", "c1")
    /\ hooks["c1"] = initialHooks["c1"]

C9_WitnessNoRender ==
    /\ initialHooks["c1"].render = AbsentHook
    /\ LogHas("delete", "c1")
    /\ hooks["c1"] = initialHooks["c1"]

----------------------------------------------------------------------------
Resolved(c, p) == BoundPromise(c, p) /\ Binding(c).promises[p].kind = "array"

(* C10: once the registration of a component holds the value of a promise,  *)
(* every step either keeps the registration, the value and attaches no      *)
(* continuation for it, or is the wrapped disconnectedCallback deleting the *)
(* registration.                                                            *)
C10_ResolvedBindingStays ==
    [][\A c \in Components, p \in Promises :
          Resolved(c, p) =>
              LET r == componentRegistrations[c]
              IN \/ /\ componentRegistrations'[c] = r
                    /\ compRegs'[c][r].promises[p] = compRegs[c][r].promises[p]
                    /\ \A i \in DOMAIN thens' :
                           thens'[i] # [promise |-> p, comp |-> c, reg |-> r]
                 \/ /\ componentRegistrations'[c] = 0
                    /\ \E i \in DOMAIN log' :
                           log'[i].ev = "disconnectedCallback" /\ log'[i].comp = c]_vars

C10_Witness ==
    /\ WrappedPassReturned("c1")
    /\ NoRead("c1")
    /\ Resolved("c1", "p1")
    /\ LogHasOn("unsubscribe", "c1", "s1")

----------------------------------------------------------------------------
(* C11, as claimed: while a render call of a component is in progress, no   *)
(* step calls forceUpdate for that component; in particular not the read    *)
(* whose subscribe makes the observable hand over values at once.           *)
C11_NoForceUpdateInsideRender ==
    pass.active => ~LogHas("forceUpdate", pass.comp)

(* C11 as found: the read that subscribes to a replaying observable inside  *)
(* the render body calls forceUpdate before it returns                      *)
C11_ForceUpdateInsideRender ==
    /\ pass.active
    /\ LogHasOn("subscribe", pass.comp, "s2")
    /\ LogHasOn("forceUpdate", pass.comp, "s2")

----------------------------------------------------------------------------
\* the observable has handed a value to the open subscription of c on s
Emitted(c, s) == \E k \in OpenSubs(c, s) : subscriptions[c][k].got

(* C12, as claimed: async(obj) returns undefined for a promise that has not *)
(* settled and for an observable that has handed over no value, on the      *)
(* first read and on every later one.                                       *)
C12_UndefinedBeforeValue ==
    \A i \in DOMAIN log :
        log[i].ev = "return" =>
            /\ (log[i].src \in Promises /\ ~promiseState[log[i].src].settled)
                   => log[i].val = Undefined
            /\ (log[i].src \in Streams /\ ~Emitted(log[i].comp, log[i].src))
                   => log[i].val = Undefined

(* C12 as found: the read of a pending promise returns null *)
C12_ReadReturnsNull ==
    \E i \in DOMAIN log :
        /\ log[i].ev = "return" /\ log[i].src \in Promises
        /\ ~promiseState[log[i].src].settled
        /\ log[i].val = Null

----------------------------------------------------------------------------
\* what a read of obj returns before any value was observed
Marker(obj) == IF obj \in Promises THEN Null ELSE Undefined

(* C13, as claimed: a read made after the promise resolved (and the         *)
(* continuation ran) or after the observable handed over a value returns    *)
(* something else than a read made before, whatever the value is.           *)
C13_MarkerDistinct ==
    \A i \in DOMAIN log :
        log[i].ev = "return" =>
            /\ (log[i].src \in Promises /\ Continuation(log[i].comp, log[i].src) \in fired)
                   => log[i].val # Marker(log[i].src)
            /\ (log[i].src \in Streams /\ Emitted(log[i].comp, log[i].src))
                   => log[i].val # Marker(log[i].src)

(* C13 as found: after the observable emitted undefined the read returns    *)
(* undefined, as it did before                                              *)
C13_EmittedUndefinedReadsAsMarker ==
    \E i \in DOMAIN log :
        /\ log[i].ev = "return" /\ log[i].src \in Streams
        /\ Emitted(log[i].comp, log[i].src)
        /\ log[i].val = Undefined

----------------------------------------------------------------------------
(* C14: a call of async(obj) for an obj that is neither promise nor         *)
(* subscribable calls console.error, returns undefined, and leaves          *)
(* componentRegistrations, every compReg and observableReg, the             *)
(* subscriptions, the attached continuations and the hooks as they were.    *)
C14_InvalidReadChangesNothing ==
    [][\A i \in DOMAIN log' :
          (log'[i].ev = "return" /\ log'[i].src \in Junk) =>
              /\ i > 1
              /\ log'[i - 1] = Ev("console.error", log'[i].comp, log'[i].src, Undefined, 0)
              /\ log'[i].val = Undefined
              /\ componentRegistrations' = componentRegistrations
              /\ hooks' = hooks
              /\ compRegs' = compRegs
              /\ obsRegs' = obsRegs
              /\ subscriptions' = subscriptions
              /\ thens' = thens]_vars

C14_Witness ==
    /\ LogHasOn("console.error", "c1", "junk")
    /\ LogHasOn("return", "c1", "junk")
    /\ ~Registered("c1")
    /\ hooks["c1"] = initialHooks["c1"]

C14_WitnessRegistered ==
    /\ LogHasOn("console.error", "c1", "junk")
    /\ BoundStream("c1", "s1")
    /\ pass.active

----------------------------------------------------------------------------
(* C15: init on a registered component and destroy or unregisterObservable  *)
(* on an unregistered one return the state they were given, and each of the *)
(* three applied twice gives what it gives applied once; a registered       *)
(* component has the wrappers of its one compReg installed and no wrapper   *)
(* in origMethods, an unregistered one has no wrapper installed; the        *)
(* wrapped connectedCallback, which calls init, leaves the registration and *)
(* the wrappers it was installed with.                                      *)
C15_InstallDestroyIdempotent ==
    \A c \in Components :
        /\ Registered(c) =>
               /\ init(State, c) = State
               /\ \A h \in HookNames :
                      /\ hooks[c][h] = Wrapper(componentRegistrations[c])
                      /\ Binding(c).origMethods[h].kind # "wrapper"
        /\ ~Registered(c) =>
               /\ destroy(State, c) = State
               /\ \A s \in Streams : unregisterObservable(State, c, s) = State
               /\ \A h \in HookNames : hooks[c][h].kind # "wrapper"
        /\ init(init(State, c), c) = init(State, c)
        /\ destroy(destroy(State, c), c) = destroy(State, c)
        /\ \A s \in Streams :
               unregisterObservable(unregisterObservable(State, c, s), c, s)
                   = unregisterObservable(State, c, s)
        /\ \A i \in DOMAIN log :
               (log[i].ev = "connectedCallback" /\ log[i].comp = c) =>
                   /\ componentRegistrations[c] = log[i].n
                   /\ \A h \in HookNames : hooks[c][h] = Wrapper(log[i].n)

C15_Witness ==
    /\ LogHas("connectedCallback", "c1")
    /\ LogHas("origConnected", "c1")
    /\ BoundPromise("c1", "p1")
    /\ BoundStream("c1", "s1")
    /\ ~Registered("c2")

----------------------------------------------------------------------------
(* C16: in every state, the open subscriptions of a component on an         *)
(* observable are exactly the one held by the entry of the observable in    *)
(* the registered compReg, and none if there is no such entry; a read       *)
(* subscribes at most once.                                                 *)
C16_SubscriptionsMatchEntries ==
    /\ \A c \in Components, s \in Streams :
           /\ BoundStream(c, s) =>
                  /\ OpenSubs(c, s) = {Binding(c).observables[s]}
                  /\ obsRegs[c][Binding(c).observables[s]].obs = s
           /\ ~BoundStream(c, s) => OpenSubs(c, s) = {}
           /\ Cardinality({i \in DOMAIN log : log[i].ev = "subscribe"
                               /\ log[i].comp = c /\ log[i].src = s}) <= 1
    /\ \A c \in Components : \A k \in DOMAIN subscriptions[c] :
           ~subscriptions[c][k].closed => subscriptions[c][k].obs \in Streams

C16_Witness ==
    /\ BoundStream("c1", "s1")
    /\ BoundStream("c1", "s2")
    /\ Emitted("c1", "s1")
    /\ LogHasOn("return", "c1", "s1")
    /\ ~LogHasOn("subscribe", "c1", "s1")
    /\ pass.active /\ pass.seen = {"s1"}

----------------------------------------------------------------------------
\* the value handed over last among those a buffer holds
LastOf(buf) == buf[Len(buf)]

(* C17: a read that subscribes to an observable which hands over values     *)
(* before subscribe returns gives back the last of these values, and the    *)
(* observableReg of the new entry holds it.                                 *)
C17_SyncEmissionKept ==
    \A i \in DOMAIN log :
        (/\ log[i].ev = "return" /\ log[i].src \in Streams
         /\ LogHasOn("subscribe", log[i].comp, log[i].src)
         /\ LogHasOn("next", log[i].comp, log[i].src)) =>
            LET c == log[i].comp
                s == log[i].src
            IN /\ streamBuffer[s] # <<>>
               /\ log[i].val = LastOf(streamBuffer[s])
               /\ BoundStream(c, s)
               /\ obsRegs[c][Binding(c).observables[s]].result = LastOf(streamBuffer[s])
               /\ Cardinality({j \in DOMAIN log : log[j].ev = "next"}) = Len(streamBuffer[s])

C17_Witness ==
    /\ LogHasOn("subscribe", "c1", "s2")
    /\ streamBuffer["s2"] = <<Undefined, Prim("a")>>
    /\ \E i \in DOMAIN log : log[i].ev = "return" /\ log[i].val = Prim("a")
    /\ pass.active

----------------------------------------------------------------------------
Count(e, c) == Cardinality({i \in DOMAIN log : log[i].ev = e /\ log[i].comp = c})
Present(c, h) == initialHooks[c][h] = OrigHook
Once(b) == IF b THEN 1 ELSE 0

(* C18: a call of a wrapper calls the original hook once if the component   *)
(* has it and not at all otherwise; the wrapped disconnectedCallback        *)
(* deletes the registration before it calls the original; the wrapped       *)
(* render empties recentlyUsedObservables before it calls the original      *)
(* render, unsubscribes and deletes only after that has returned and before *)
(* it returns itself, and returns what the original render returned, also   *)
(* when it deletes the registration.                                        *)
C18_WrappersTransparent ==
    \A c \in Components :
        /\ LogHas("connectedCallback", c) =>
               /\ log[1].ev = "connectedCallback"
               /\ Count("connectedCallback", c) = 1
               /\ Count("origConnected", c) = Once(Present(c, "connectedCallback"))
        /\ LogHas("disconnectedCallback", c) =>
               /\ log[1].ev = "disconnectedCallback"
               /\ Count("disconnectedCallback", c) = 1
               /\ Count("delete", c) = 1
               /\ Count("origDisconnected", c) = Once(Present(c, "disconnectedCallback"))
               /\ \A j, k \in DOMAIN log :
                      (log[j].ev = "delete" /\ log[k].ev = "origDisconnected") => j < k
        /\ LogHas("render", c) =>
               /\ log[1].ev = "render"
               /\ Len(log) = 2
               /\ IF Present(c, "render")
                  THEN /\ log[2].ev = "origRender"
                       /\ pass.active
                       /\ compRegs[c][log[1].n].recentlyUsedObservables = {}
                  ELSE /\ log[2] = Ev("renderReturn", c, NoObject, Undefined, log[1].n)
                       /\ ~pass.active
        /\ WrappedPassReturned(c) =>
               /\ Count("origRenderReturned", c) = 1
               /\ Count("renderReturn", c) = 1
               /\ log[Len(log)].ev = "renderReturn"
               /\ \A j \in DOMAIN log :
                      log[j].ev = "origRenderReturned" =>
                          /\ log[Len(log)].val = log[j].val
                          /\ \A k \in DOMAIN log :
                                 log[k].ev \in {"unsubscribe", "delete"} =>
                                     j < k /\ k < Len(log)

C18_Witness ==
    /\ WrappedPassReturned("c1")
    /\ LogHasOn("unsubscribe", "c1", "s1")
    /\ LogHas("delete", "c1")
    /\ log[Len(log)].val = Prim("vdom")
    /\ ~Present("c1", "connectedCallback")

C18_WitnessAbsent ==
    /\ LogHas("disconnectedCallback", "c1")
    /\ ~Present("c1", "disconnectedCallback")
    /\ Present("c1", "render")
    /\ LogHasOn("unsubscribe", "c1", "s1")

----------------------------------------------------------------------------
(* C19: a step that makes no call for component b (a read, a render call or *)
(* its return, a connect or disconnect, a continuation of another           *)
(* component) leaves b's registration, compReg and observableReg objects,   *)
(* hooks and subscriptions as they were; and when an observable emits,      *)
(* every component that holds an open subscription on it gets forceUpdate,  *)
(* whatever other components have unsubscribed.                             *)
C19_NoCrossComponent ==
    [][/\ \A b \in Components :
             (\A i \in DOMAIN log' : log'[i].comp # b) =>
                 /\ componentRegistrations'[b] = componentRegistrations[b]
                 /\ compRegs'[b] = compRegs[b]
                 /\ obsRegs'[b] = obsRegs[b]
                 /\ subscriptions'[b] = subscriptions[b]
                 /\ hooks'[b] = hooks[b]
       /\ \A s \in Streams :
             (/\ \E i \in DOMAIN log' : log'[i].ev = "next" /\ log'[i].src = s
              /\ \A j \in DOMAIN log' : log'[j].ev # "subscribe") =>
                 \A c \in Components :
                     OpenSubs(c, s) # {} =>
                         /\ \E i \in DOMAIN log' :
                                log'[i].ev = "forceUpdate" /\ log'[i].comp = c /\ log'[i].src = s
                         /\ Emitted(c, s)']_vars

C19_Witness ==
    /\ LogHas("disconnectedCallback", "c1")
    /\ LogHasOn("unsubscribe", "c1", "s1")
    /\ ~Registered("c1")
    /\ BoundStream("c2", "s1")
    /\ Emitted("c2", "s1")

C19_WitnessEmission ==
    /\ ~Registered("c1")
    /\ hooks["c1"] = initialHooks["c1"]
    /\ LogHasOn("next", "c2", "s1")
    /\ LogHasOn("forceUpdate", "c2", "s1")

C19_WitnessPromise ==
    /\ page["c2"] = {"p1"}
    /\ LogHas("disconnectedCallback", "c1")
    /\ Resolved("c2", "p1")

----------------------------------------------------------------------------
\* async(s) was called by c while dropped held a value for c and s
ReadAfterDrop(i) == log[i].ev = "return" /\ log[i].src \in Streams /\ log[i].n = 1

(* C20: once the subscription of a component on an observable has been      *)
(* closed, by unregisterObservable or by destroy, a read of the observable  *)
(* by the component is served by a new open subscription and its new        *)
(* observableReg, and returns undefined as long as that subscription has    *)
(* received no value; the value received by the closed subscription is not  *)
(* returned again.  When the new subscription receives values during        *)
(* subscribe, the read returns the last of them.                            *)
C20_CachedValueDropped ==
    /\ \A i \in DOMAIN log :
           ReadAfterDrop(i) =>
               LET c == log[i].comp
                   s == log[i].src
               IN /\ BoundStream(c, s)
                  /\ OpenSubs(c, s) = {Binding(c).observables[s]}
                  /\ ~LogHasOn("next", c, s) => log[i].val = Undefined /\ ~Emitted(c, s)
                  /\ LogHasOn("next", c, s) =>
                         /\ LogHasOn("subscribe", c, s)
                         /\ log[i].val = LastOf(streamBuffer[s])
    /\ \A d \in dropped.values :
           /\ ~Emitted(d[1], d[2])
           /\ BoundStream(d[1], d[2]) =>
                  obsRegs[d[1]][Binding(d[1]).observables[d[2]]].result = Undefined

C20_Witness ==
    /\ pass.active
    /\ <<"c1", "s1", Prim("a")>> \in dropped.values
    /\ LogHasOn("subscribe", "c1", "s1")
    /\ \E i \in DOMAIN log : ReadAfterDrop(i) /\ log[i].src = "s1" /\ log[i].val = Undefined
    /\ Registered("c1")

C20_WitnessAfterDestroy ==
    /\ <<"c1", "s1", Prim("a")>> \in dropped.values
    /\ LogHas("delete", "c1")
    /\ ~Registered("c1")

C20_WitnessReplay ==
    \E i \in DOMAIN log :
        /\ ReadAfterDrop(i) /\ log[i].src = "s2"
        /\ LogHasOn("subscribe", "c1", "s2")
        /\ log[i].val = Prim("a")

====
